---- MODULE Spec2Model ----
(***************************************************************************)
(* Model of docs/exts/operators_and_hooks_ref.py: the provider-metadata    *)
(* indexer (_prepare_resource_index), the aggregators built on it          *)
(* (_prepare_operators_data, _prepare_transfer_data, the five simple       *)
(* category aggregators) and the path normalizer (_docs_path).             *)
(*                                                                         *)
(* Python values are modelled as follows.                                  *)
(*   str whose content matters (paths, integration names): a sequence of   *)
(*       one-character strings, so that startswith, split, lower and the   *)
(*       ordering used by sorted() are computed, not assumed.              *)
(*   dict with fixed keys (a YAML record): a function from key strings.    *)
(*   dict built at run time (a resource index): a sequence of              *)
(*       [key, value, object] entries in insertion order, keys unique.     *)
(*   list: a sequence.  set of tags: a set.  None: the record None.        *)
(*   a call's outcome: Return(v) or Raise(type, message).                  *)
(*   Optional[set] argument (tags): <<>> for None, <<S>> for the set S.    *)
(***************************************************************************)
EXTENDS Integers, Sequences, FiniteSets, TLC

VARIABLES
    package_data,   \* the loaded provider records (load_package_data()), in load order
    call,           \* the entry point called last with its arguments, <<>> before any call
    result          \* what that call returned or raised, Pending until it has returned

vars == <<package_data, call, result>>

\* Python's None, where a dict could stand in its place
None == [none |-> TRUE]

\* no outcome yet: the call has not returned
Pending == [raised |-> FALSE, type |-> "pending", value |-> <<>>]

Return(v) == [raised |-> FALSE, type |-> "", value |-> v]
Raise(t, m) == [raised |-> TRUE, type |-> t, value |-> m]

----------------------------------------------------------------------------
(* str helpers *)

startswith(s, prefix) ==
    /\ Len(s) >= Len(prefix)
    /\ SubSeq(s, 1, Len(prefix)) = prefix

endswith(s, suffix) ==
    /\ Len(s) >= Len(suffix)
    /\ SubSeq(s, Len(s) - Len(suffix) + 1, Len(s)) = suffix

\* s.lstrip(c)
RECURSIVE lstrip(_, _)
lstrip(s, c) ==
    IF s # <<>> /\ Head(s) = c THEN lstrip(Tail(s), c) ELSE s

\* position of the first occurrence of c in s at or after position i, 0 when none
RECURSIVE find(_, _, _)
find(s, c, i) ==
    IF i > Len(s) THEN 0
    ELSE IF s[i] = c THEN i
    ELSE find(s, c, i + 1)

\* s.split(sep, maxsplit): at most maxsplit cuts, made at the leftmost separators
RECURSIVE split(_, _, _)
split(s, sep, maxsplit) ==
    LET i == find(s, sep, 1) IN
    IF maxsplit = 0 \/ i = 0 THEN <<s>>
    ELSE <<SubSeq(s, 1, i - 1)>> \o split(SubSeq(s, i + 1, Len(s)), sep, maxsplit - 1)

\* sep.join(parts)
RECURSIVE join(_, _)
join(sep, parts) ==
    IF parts = <<>> THEN <<>>
    ELSE IF Len(parts) = 1 THEN parts[1]
    ELSE parts[1] \o sep \o join(sep, Tail(parts))

\* s[:-n]
DropLast(s, n) ==
    IF Len(s) <= n THEN <<>> ELSE SubSeq(s, 1, Len(s) - n)

----------------------------------------------------------------------------
(* os.path (posixpath) on absolute paths *)

SEP == <<"/">>
CURDIR == <<".">>
PARDIR == <<".", ".">>

\* the components normpath keeps, scanning left to right: "" and "." are
\* skipped, ".." removes the component before it (and is dropped at the root)
RECURSIVE normcomps(_, _)
normcomps(comps, acc) ==
    IF comps = <<>> THEN acc
    ELSE LET c == Head(comps) IN
         IF c = <<>> \/ c = CURDIR THEN normcomps(Tail(comps), acc)
         ELSE IF c # PARDIR THEN normcomps(Tail(comps), Append(acc, c))
         ELSE IF acc # <<>> THEN normcomps(Tail(comps), DropLast(acc, 1))
         ELSE normcomps(Tail(comps), acc)

\* the components of os.path.abspath(path) for an absolute path
abspath_comps(path) == normcomps(split(path, "/", Len(path)), <<>>)

\* os.path.join(a, b) for a relative b
os_path_join(a, b) ==
    IF startswith(b, SEP) THEN b
    ELSE IF a = <<>> \/ endswith(a, SEP) THEN a \o b
    ELSE a \o SEP \o b

\* length of the common prefix of two component lists
RECURSIVE commonlen(_, _)
commonlen(a, b) ==
    IF a = <<>> \/ b = <<>> \/ Head(a) # Head(b) THEN 0
    ELSE 1 + commonlen(Tail(a), Tail(b))

\* os.path.relpath(path, start), both absolute
relpath(path, start) ==
    LET start_list == abspath_comps(start)
        path_list == abspath_comps(path)
        i == commonlen(start_list, path_list)
        rel_list == [k \in 1..(Len(start_list) - i) |-> PARDIR]
                        \o SubSeq(path_list, i + 1, Len(path_list))
    IN IF rel_list = <<>> THEN CURDIR ELSE join(SEP, rel_list)

----------------------------------------------------------------------------
(* module constants *)

\* ROOT_DIR is the absolute, normalized path of the checkout (two levels above
\* docs/exts); its value depends on where the repository lives.
ROOT_DIR == <<"/", "r", "o", "o", "t">>

DOCS_DIR == os_path_join(ROOT_DIR, <<"d", "o", "c", "s">>)

DOCS_PREFIX == <<"/", "d", "o", "c", "s", "/">>
PROVIDER_DIR_PREFIX ==
    <<"a", "p", "a", "c", "h", "e", "-", "a", "i", "r", "f", "l", "o", "w", "-",
      "p", "r", "o", "v", "i", "d", "e", "r", "s", "-">>
PROVIDER_DOCS_PREFIX == DOCS_PREFIX \o PROVIDER_DIR_PREFIX
RST == <<".", "r", "s", "t">>

MSG_PREFIX == "The path must starts with '/docs/'. Current value: "
MSG_SUFFIX == "The path must ends with '.rst'. Current value: "
MSG_UNPACK == "not enough values to unpack (expected 4, got 3)"

----------------------------------------------------------------------------
(* _docs_path *)

\* as docs_path_provider, the extension left on the result
docs_path_provider_keeps_rst(filepath) ==
    LET parts == split(filepath, "/", 3) IN
    IF Len(parts) # 4 THEN Raise("ValueError", MSG_UNPACK)
    ELSE Return(parts[3] \o <<":">> \o parts[4])

\* the provider branch: _, _, provider, rest = filepath.split("/", maxsplit=3)
docs_path_provider(filepath) ==
    LET parts == split(filepath, "/", 3) IN
    IF Len(parts) # 4 THEN Raise("ValueError", MSG_UNPACK)
    ELSE Return(DropLast(parts[3] \o <<":">> \o parts[4], Len(RST)))

\* the other branch: relative to DOCS_DIR
docs_path_relative(filepath) ==
    Return(DropLast(relpath(os_path_join(ROOT_DIR, lstrip(filepath, "/")), DOCS_DIR),
                    Len(RST)))

docs_path(filepath) ==
    IF ~startswith(filepath, DOCS_PREFIX) THEN Raise("Exception", <<MSG_PREFIX, filepath>>)
    ELSE IF ~endswith(filepath, RST) THEN Raise("Exception", <<MSG_SUFFIX, filepath>>)
    ELSE IF startswith(filepath, PROVIDER_DOCS_PREFIX) THEN docs_path_provider(filepath)
    ELSE docs_path_relative(filepath)

----------------------------------------------------------------------------
(* inputs of the path normalizer *)

MaxPieces == 3

AMAZON == <<"a", "m", "a", "z", "o", "n">>

\* the pieces a path body is assembled from
Pieces == {AMAZON, SEP, <<"x">>, PARDIR, RST}

Prefixes == {DOCS_PREFIX, PROVIDER_DOCS_PREFIX, <<"d", "o", "c", "s", "/">>, <<"/">>}

Suffixes == {RST, <<>>, <<".", "m", "d">>}

RECURSIVE concat(_)
concat(parts) == IF parts = <<>> THEN <<>> ELSE Head(parts) \o concat(Tail(parts))

Bodies == UNION {{concat(b) : b \in [1..n -> Pieces]} : n \in 0..MaxPieces}

LAMBDA_RST ==
    PROVIDER_DOCS_PREFIX \o AMAZON \o <<"/", "o", "p", "e", "r", "a", "t", "o", "r", "s",
                                        "/", "l", "a", "m", "b", "d", "a">> \o RST
CUSTOM_OPERATOR_RST ==
    DOCS_PREFIX \o <<"h", "o", "w", "t", "o", "/", "c", "u", "s", "t", "o", "m", "-",
                     "o", "p", "e", "r", "a", "t", "o", "r">> \o RST

PathInputs ==
    {p \o b \o s : p \in Prefixes, b \in Bodies, s \in Suffixes}
        \cup {LAMBDA_RST, CUSTOM_OPERATOR_RST}

----------------------------------------------------------------------------
(* the path normalizer called on its own: the argument is drawn when the    *)
(* call is made, the result is Pending until _docs_path has returned       *)

InitDocsPath ==
    /\ package_data = <<>>
    /\ call \in {<<"_docs_path", filepath>> : filepath \in PathInputs}
    /\ result = Pending

DocsPath ==
    /\ call # <<>> /\ call[1] = "_docs_path"
    /\ result' = docs_path(call[2])
    /\ UNCHANGED <<package_data, call>>

NextDocsPath == DocsPath

SpecDocsPath == InitDocsPath /\ [][NextDocsPath]_vars

----------------------------------------------------------------------------
(* dict helpers *)

\* a record with no key
Empty == <<>>

\* d.get(key, default) on a record
Get(d, key, default) == IF key \in DOMAIN d THEN d[key] ELSE default

\* position of key in a run-time dict, 0 when absent
RECURSIVE KeyIndex(_, _, _)
KeyIndex(d, key, i) ==
    IF i > Len(d) THEN 0
    ELSE IF d[i].key = key THEN i
    ELSE KeyIndex(d, key, i + 1)

HasKey(d, key) == KeyIndex(d, key, 1) # 0

\* as DictSet, an entry already present kept
DictSetKeepsFirst(d, entry) ==
    LET i == KeyIndex(d, entry.key, 1) IN
    IF i = 0 THEN Append(d, entry) ELSE d

\* d[key] = entry: a key already present keeps its place in the insertion order
DictSet(d, entry) ==
    LET i == KeyIndex(d, entry.key, 1) IN
    IF i = 0 THEN Append(d, entry) ELSE [d EXCEPT ![i] = entry]

\* d.get(key): the value, or None
DictGet(d, key) ==
    LET i == KeyIndex(d, key, 1) IN
    IF i = 0 THEN None ELSE d[i].value

\* bool(x) for x a dict or None
Truthy(x) == x # None /\ DOMAIN x # {}

----------------------------------------------------------------------------
(* _prepare_resource_index *)

\* The dict object an index entry holds.  `object` tells which object it is:
\* NewObject for a dict created by the call, <<p, resource_type, i>> for the loaded
\* record i of provider p's resource_type list.
NewObject == <<>>

\* as IndexEntry, the loaded record annotated in place and stored itself, no copy
IndexEntryInPlace(p, resource_type, i, provider, integration) ==
    [key |-> integration["integration-name"],
     value |-> ("package-name" :> provider["package-name"]) @@ integration,
     object |-> <<p, resource_type, i>>]

\* integration["integration-name"]: {**integration, "package-name": provider["package-name"]}
IndexEntry(p, resource_type, i, provider, integration) ==
    [key |-> integration["integration-name"],
     value |-> ("package-name" :> provider["package-name"]) @@ integration,
     object |-> NewObject]

\* the entries of the comprehension in iteration order: provider i of data,
\* record j of its resource_type list (a missing list is empty)
RECURSIVE IndexFrom(_, _, _, _, _)
IndexFrom(data, resource_type, p, i, index) ==
    IF p > Len(data) THEN index
    ELSE LET resources == Get(data[p], resource_type, <<>>) IN
         IF i > Len(resources) THEN IndexFrom(data, resource_type, p + 1, 1, index)
         ELSE IndexFrom(data, resource_type, p, i + 1,
                        DictSet(index, IndexEntry(p, resource_type, i, data[p], resources[i])))

prepare_resource_index(data, resource_type) == IndexFrom(data, resource_type, 1, 1, <<>>)

----------------------------------------------------------------------------
(* str.lower and the ordering of str, for the characters integration names use *)

ord ==
    ("B" :> 66) @@ ("L" :> 76) @@ ("Q" :> 81) @@ ("S" :> 83) @@
    ("a" :> 97) @@ ("b" :> 98) @@ ("c" :> 99) @@ ("l" :> 108) @@
    ("o" :> 111) @@ ("q" :> 113) @@ ("s" :> 115)

chr(n) == CHOOSE c \in DOMAIN ord : ord[c] = n

\* c.lower(): 'A'..'Z' are 32 below 'a'..'z'
lower_char(c) == IF ord[c] \in 65..90 THEN chr(ord[c] + 32) ELSE c

lower(s) == [i \in 1..Len(s) |-> lower_char(s[i])]

\* s < t, lexicographic by code point
RECURSIVE str_lt(_, _)
str_lt(s, t) ==
    IF t = <<>> THEN FALSE
    ELSE IF s = <<>> THEN TRUE
    ELSE IF ord[Head(s)] # ord[Head(t)] THEN ord[Head(s)] < ord[Head(t)]
    ELSE str_lt(Tail(s), Tail(t))

----------------------------------------------------------------------------
(* _prepare_operators_data *)

\* the write obj[key] = value, as the loaded records see it: only a write to a
\* loaded record changes them
Store(data, object, key, value) ==
    IF object = NewObject THEN data
    ELSE [data EXCEPT ![object[1]][object[2]][object[3]] = (key :> value) @@ @]

\* [_docs_path(d) for d in guides]: the list, or the first error raised
RECURSIVE docs_paths(_, _)
docs_paths(guides, acc) ==
    IF guides = <<>> THEN Return(acc)
    ELSE LET r == docs_path(Head(guides)) IN
         IF r.raised THEN r ELSE docs_paths(Tail(guides), Append(acc, r.value))

\* as to_display_integration, the filter not applied
to_display_unfiltered(all_integrations, tags) == all_integrations

\* the integrations to display: every entry when tags is None (<<>>), else the
\* entries whose tags meet the filter <<tags>>
to_display_integration(all_integrations, tags) ==
    IF tags = <<>> THEN all_integrations
    ELSE SelectSeq(all_integrations, LAMBDA e : tags[1] \cap e.value["tags"] # {})

\* as Item, every category key stored whether or not a record was found
ItemWithAllKeys(integration, operators, sensors, hooks) ==
    ("hooks" :> hooks) @@ ("operators" :> operators) @@ ("integration" :> integration)

\* item = {"integration": integration}, then "operators" and "hooks" when found
Item(integration, operators, sensors, hooks) ==
    (IF Truthy(hooks) THEN "hooks" :> hooks ELSE Empty)
        @@ (IF Truthy(sensors) THEN "hooks" :> sensors ELSE Empty)
        @@ (IF Truthy(operators) THEN "operators" :> operators ELSE Empty)
        @@ ("integration" :> integration)

\* as OperatorsLoop, the non-empty check made first: an integration with no
\* operators and no hooks is passed over before its how-to-guide is looked at
RECURSIVE OperatorsLoopCheckFirst(_, _, _, _, _, _)
OperatorsLoopCheckFirst(to_display, k, all_operators, all_sensors, all_hooks, st) ==
    IF k > Len(to_display) THEN st
    ELSE LET integration == to_display[k]
             name == integration.value["integration-name"]
             operators == DictGet(all_operators, name)
             sensors == DictGet(all_sensors, name)
             hooks == DictGet(all_hooks, name)
             has_guide == "how-to-guide" \in DOMAIN integration.value
             guides == IF has_guide THEN docs_paths(integration.value["how-to-guide"], <<>>)
                       ELSE Return(<<>>)
         IN
         IF ~(Truthy(operators) \/ Truthy(sensors) \/ Truthy(hooks))
         THEN OperatorsLoopCheckFirst(to_display, k + 1, all_operators, all_sensors,
                                      all_hooks, st)
         ELSE IF guides.raised THEN [st EXCEPT !.outcome = guides]
         ELSE LET value == IF has_guide
                           THEN ("how-to-guide" :> guides.value) @@ integration.value
                           ELSE integration.value
                  data == IF has_guide
                          THEN Store(st.data, integration.object, "how-to-guide", guides.value)
                          ELSE st.data
              IN OperatorsLoopCheckFirst(to_display, k + 1, all_operators, all_sensors,
                     all_hooks,
                     [st EXCEPT !.data = data,
                                !.results = Append(@, Item(value, operators, sensors, hooks))])

\* the body of the for loop, from entry k on.  st holds the loaded records, the
\* results so far and the outcome (Pending until an error is raised).
RECURSIVE OperatorsLoop(_, _, _, _, _, _)
OperatorsLoop(to_display, k, all_operators, all_sensors, all_hooks, st) ==
    IF k > Len(to_display) THEN st
    ELSE LET integration == to_display[k]
             name == integration.value["integration-name"]
             operators == DictGet(all_operators, name)
             sensors == DictGet(all_sensors, name)
             hooks == DictGet(all_hooks, name)
             has_guide == "how-to-guide" \in DOMAIN integration.value
             guides == IF has_guide THEN docs_paths(integration.value["how-to-guide"], <<>>)
                       ELSE Return(<<>>)
         IN
         IF guides.raised THEN [st EXCEPT !.outcome = guides]
         ELSE LET value == IF has_guide
                           THEN ("how-to-guide" :> guides.value) @@ integration.value
                           ELSE integration.value
                  data == IF has_guide
                          THEN Store(st.data, integration.object, "how-to-guide", guides.value)
                          ELSE st.data
                  results == IF Truthy(operators) \/ Truthy(sensors) \/ Truthy(hooks)
                             THEN Append(st.results, Item(value, operators, sensors, hooks))
                             ELSE st.results
              IN OperatorsLoop(to_display, k + 1, all_operators, all_sensors, all_hooks,
                               [st EXCEPT !.data = data, !.results = results])

\* as SortKey, the name compared as written
SortKeyCaseSensitive(d) == d["integration"]["integration-name"]

\* key=lambda d: d["integration"]["integration-name"].lower()
SortKey(d) == lower(d["integration"]["integration-name"])

\* sorted() is stable: x goes after every element whose key is not greater
RECURSIVE InsertSorted(_, _)
InsertSorted(sorted_list, x) ==
    IF sorted_list = <<>> THEN <<x>>
    ELSE IF str_lt(SortKey(x), SortKey(Head(sorted_list))) THEN <<x>> \o sorted_list
    ELSE <<Head(sorted_list)>> \o InsertSorted(Tail(sorted_list), x)

RECURSIVE sorted(_, _)
sorted(items, acc) ==
    IF items = <<>> THEN acc ELSE sorted(Tail(items), InsertSorted(acc, Head(items)))

\* the loaded records after the call, and its outcome
prepare_operators_data(data, tags) ==
    LET all_integrations == prepare_resource_index(data, "integrations")
        to_display == to_display_integration(all_integrations, tags)
        all_operators_by_integration == prepare_resource_index(data, "operators")
        all_hooks_by_integration == prepare_resource_index(data, "hooks")
        all_sensors_by_integration == prepare_resource_index(data, "hooks")
        st == OperatorsLoop(to_display, 1, all_operators_by_integration,
                            all_sensors_by_integration, all_hooks_by_integration,
                            [data |-> data, results |-> <<>>, outcome |-> Pending])
    IN [data |-> st.data,
        outcome |-> IF st.outcome.raised THEN st.outcome
                    ELSE Return(sorted(st.results, <<>>))]

----------------------------------------------------------------------------
(* _prepare_transfer_data *)

SQL == <<"S", "Q", "L">>
Local == <<"L", "o", "c", "a", "l">>

\* as AddEdgeCases, a placeholder written only under a name the index lacks
AddEdgeCasesKeepDeclared(index) ==
    DictSetKeepsFirst(
        DictSetKeepsFirst(index, [key |-> SQL, value |-> ("integration-name" :> SQL),
                                  object |-> NewObject]),
        [key |-> Local, value |-> ("integration-name" :> Local), object |-> NewObject])

\* for name in ["SQL", "Local"]: index[name] = {"integration-name": name}
AddEdgeCases(index) ==
    DictSet(DictSet(index, [key |-> SQL, value |-> ("integration-name" :> SQL),
                            object |-> NewObject]),
            [key |-> Local, value |-> ("integration-name" :> Local), object |-> NewObject])

\* the dict built for one transfer record, both endpoints being in the index
TransferEntry(p, i, provider, transfer, index) ==
    [value |-> ("target-integration" :> DictGet(index, transfer["target-integration-name"]))
                @@ ("source-integration" :> DictGet(index, transfer["source-integration-name"]))
                @@ ("package-name" :> provider["package-name"])
                @@ transfer,
     object |-> NewObject]

\* as AllTransfersFrom, a transfer with an endpoint missing from the index left out
RECURSIVE AllTransfersSkipping(_, _, _, _, _)
AllTransfersSkipping(data, index, p, i, acc) ==
    IF p > Len(data) THEN Return(acc)
    ELSE LET transfers == Get(data[p], "transfers", <<>>) IN
         IF i > Len(transfers) THEN AllTransfersSkipping(data, index, p + 1, 1, acc)
         ELSE LET transfer == transfers[i] IN
              IF \/ ~HasKey(index, transfer["source-integration-name"])
                 \/ ~HasKey(index, transfer["target-integration-name"])
              THEN AllTransfersSkipping(data, index, p, i + 1, acc)
              ELSE AllTransfersSkipping(data, index, p, i + 1,
                                        Append(acc, TransferEntry(p, i, data[p], transfer, index)))

\* the all_transfers comprehension from record i of provider p on: the list, or
\* the KeyError of the first endpoint lookup that fails (source before target)
RECURSIVE AllTransfersFrom(_, _, _, _, _)
AllTransfersFrom(data, index, p, i, acc) ==
    IF p > Len(data) THEN Return(acc)
    ELSE LET transfers == Get(data[p], "transfers", <<>>) IN
         IF i > Len(transfers) THEN AllTransfersFrom(data, index, p + 1, 1, acc)
         ELSE LET transfer == transfers[i] IN
              IF ~HasKey(index, transfer["source-integration-name"])
              THEN Raise("KeyError", transfer["source-integration-name"])
              ELSE IF ~HasKey(index, transfer["target-integration-name"])
              THEN Raise("KeyError", transfer["target-integration-name"])
              ELSE AllTransfersFrom(data, index, p, i + 1,
                                    Append(acc, TransferEntry(p, i, data[p], transfer, index)))

\* as TransferMatches, a transfer kept only when both endpoints meet the filter
TransferMatchesBoth(tags, transfer) ==
    /\ tags \cap Get(transfer["source-integration"], "tags", {}) # {}
    /\ tags \cap Get(transfer["target-integration"], "tags", {}) # {}

\* tags.intersection(source tags) or tags.intersection(target tags)
TransferMatches(tags, transfer) ==
    \/ tags \cap Get(transfer["source-integration"], "tags", {}) # {}
    \/ tags \cap Get(transfer["target-integration"], "tags", {}) # {}

to_display_transfers(all_transfers, tags) ==
    IF tags = <<>> THEN all_transfers
    ELSE SelectSeq(all_transfers, LAMBDA e : TransferMatches(tags[1], e.value))

\* the how-to-guide loop, from transfer k on
RECURSIVE TransfersLoop(_, _, _)
TransfersLoop(to_display, k, st) ==
    IF k > Len(to_display) THEN st
    ELSE LET transfer == to_display[k] IN
         IF "how-to-guide" \notin DOMAIN transfer.value
         THEN TransfersLoop(to_display, k + 1,
                            [st EXCEPT !.results = Append(@, transfer.value)])
         ELSE LET guide == docs_path(transfer.value["how-to-guide"]) IN
              IF guide.raised THEN [st EXCEPT !.outcome = guide]
              ELSE TransfersLoop(to_display, k + 1,
                       [st EXCEPT !.data = Store(@, transfer.object, "how-to-guide", guide.value),
                                  !.results = Append(@, ("how-to-guide" :> guide.value)
                                                            @@ transfer.value)])

\* the loaded records after the call, and its outcome
prepare_transfer_data(data, tags) ==
    LET all_operators_by_integration == AddEdgeCases(prepare_resource_index(data, "integrations"))
        all_transfers == AllTransfersFrom(data, all_operators_by_integration, 1, 1, <<>>)
    IN IF all_transfers.raised THEN [data |-> data, outcome |-> all_transfers]
       ELSE LET st == TransfersLoop(to_display_transfers(all_transfers.value, tags), 1,
                                    [data |-> data, results |-> <<>>, outcome |-> Pending])
            IN [data |-> st.data,
                outcome |-> IF st.outcome.raised THEN st.outcome ELSE Return(st.results)]

----------------------------------------------------------------------------
(* the simple category aggregators *)

\* as SimpleFrom, a provider contributing whenever it has the category key, an
\* empty list included
RECURSIVE SimpleFromDeclared(_, _, _, _, _)
SimpleFromDeclared(data, category, field, p, all) ==
    IF p > Len(data) THEN all
    ELSE LET provider == data[p] IN
         IF category \in DOMAIN provider
         THEN SimpleFromDeclared(data, category, field, p + 1,
                                 DictSet(all, [key |-> provider["package-name"],
                                               value |-> ("name" :> provider["name"])
                                                             @@ (field :> provider[category]),
                                               object |-> NewObject]))
         ELSE SimpleFromDeclared(data, category, field, p + 1, all)

\* the loop shared by the five functions: a provider contributes an entry under
\* its package name when provider.get(category) is truthy; field names the
\* key that holds the list in the entry
RECURSIVE SimpleFrom(_, _, _, _, _)
SimpleFrom(data, category, field, p, all) ==
    IF p > Len(data) THEN all
    ELSE LET provider == data[p]
             resources == Get(provider, category, <<>>)
         IN IF resources # <<>>
            THEN SimpleFrom(data, category, field, p + 1,
                            DictSet(all, [key |-> provider["package-name"],
                                          value |-> ("name" :> provider["name"])
                                                        @@ (field :> resources),
                                          object |-> NewObject]))
            ELSE SimpleFrom(data, category, field, p + 1, all)

prepare_logging_data(data) == SimpleFrom(data, "logging", "handlers", 1, <<>>)
prepare_auth_backend_data(data) == SimpleFrom(data, "auth-backends", "auth_backends", 1, <<>>)
prepare_secrets_backend_data(data) ==
    SimpleFrom(data, "secrets-backends", "secrets_backends", 1, <<>>)
prepare_connections_data(data) ==
    SimpleFrom(data, "connection-types", "connection_types", 1, <<>>)
prepare_extra_links_data(data) == SimpleFrom(data, "extra-links", "extra_links", 1, <<>>)

----------------------------------------------------------------------------
(* the loaded provider records *)

MaxProviders == 2

\* provider["package-name"] is the unique key of a provider; the i-th provider
\* loaded is given the i-th package name and display name
PackageName(i) == <<"package", i>>
DisplayName(i) == <<"Provider", i>>

Provider(i, body) ==
    ("package-name" :> PackageName(i)) @@ ("name" :> DisplayName(i)) @@ body

\* the loads of at most MaxProviders providers whose resource lists are in bodies
Loads(bodies) ==
    UNION {{[i \in 1..n |-> Provider(i, b[i])] : b \in [1..n -> bodies]} : n \in 0..MaxProviders}

NAME_a == <<"a">>
NAME_B == <<"B">>
AWS == "aws"
GCP == "gcp"

Integration(name, tags) == ("integration-name" :> name) @@ ("tags" :> tags)
WithGuide(record, guide) == ("how-to-guide" :> guide) @@ record
Resource(name, module) == ("integration-name" :> name) @@ ("python-modules" :> <<module>>)

\* a how-to-guide path with the wrong extension
BAD_GUIDE == DOCS_PREFIX \o <<"x", ".", "m", "d">>

\* an optional key of a provider record
Optional(key, lists) == {Empty} \cup {key :> l : l \in lists}

TagFilters == {<<>>, <<{AWS}>>, <<{GCP}>>}

----------------------------------------------------------------------------
(* the operators and hooks view *)

OperatorsViewIntegrations ==
    Optional("integrations",
             {<<Integration(NAME_a, {AWS})>>,
              <<WithGuide(Integration(NAME_a, {GCP}), <<LAMBDA_RST, CUSTOM_OPERATOR_RST>>)>>,
              <<Integration(NAME_B, {AWS})>>,
              <<WithGuide(Integration(NAME_B, {GCP}), <<BAD_GUIDE>>)>>})

OperatorsViewResources ==
    {Empty,
     "operators" :> <<Resource(NAME_a, "operators")>>,
     "hooks" :> <<Resource(NAME_a, "hooks")>>,
     ("operators" :> <<Resource(NAME_B, "operators")>>) @@ ("hooks" :> <<Resource(NAME_B, "hooks")>>)}

\* one provider declaring the same integration name twice
TwiceDeclared ==
    "integrations" :> <<Integration(NAME_B, {GCP}), Integration(NAME_B, {AWS})>>

OperatorsViewBodies ==
    {i @@ r : i \in OperatorsViewIntegrations, r \in OperatorsViewResources}
        \cup {TwiceDeclared}

Init ==
    /\ package_data \in Loads(OperatorsViewBodies)
    /\ call = <<>>
    /\ result = Pending

PrepareResourceIndex ==
    \E resource_type \in {"integrations", "operators", "hooks"} :
        /\ call' = <<"_prepare_resource_index", resource_type>>
        /\ result' = Return(prepare_resource_index(package_data, resource_type))
        /\ UNCHANGED package_data

PrepareOperatorsData ==
    \E tags \in TagFilters :
        LET r == prepare_operators_data(package_data, tags) IN
        /\ call' = <<"_prepare_operators_data", tags>>
        /\ result' = r.outcome
        /\ package_data' = r.data

PrepareTransferData ==
    \E tags \in TagFilters :
        LET r == prepare_transfer_data(package_data, tags) IN
        /\ call' = <<"_prepare_transfer_data", tags>>
        /\ result' = r.outcome
        /\ package_data' = r.data

Next == PrepareResourceIndex \/ PrepareOperatorsData

Spec == Init /\ [][Next]_vars

----------------------------------------------------------------------------
(* the transfers view *)

Transfer(source, target) ==
    ("source-integration-name" :> source) @@ ("target-integration-name" :> target)
        @@ ("python-module" :> "transfers")

TransfersViewIntegrations ==
    {Empty,
     "integrations" :> <<Integration(NAME_a, {AWS})>>,
     "integrations" :> <<Integration(NAME_a, {GCP})>>,
     ("integrations" :> <<WithGuide(Integration(NAME_B, {GCP}), <<CUSTOM_OPERATOR_RST>>)>>)
         @@ ("operators" :> <<Resource(NAME_B, "operators")>>),
     "integrations" :> <<Integration(SQL, {AWS})>>}

TransfersViewTransfers ==
    Optional("transfers",
             {<<Transfer(NAME_a, NAME_B)>>,
              <<WithGuide(Transfer(SQL, NAME_a), LAMBDA_RST)>>,
              <<WithGuide(Transfer(NAME_a, Local), BAD_GUIDE)>>})

TransfersViewBodies ==
    {i @@ t : i \in TransfersViewIntegrations, t \in TransfersViewTransfers}

InitTransfers ==
    /\ package_data \in Loads(TransfersViewBodies)
    /\ call = <<>>
    /\ result = Pending

NextTransfers == PrepareOperatorsData \/ PrepareTransferData

SpecTransfers == InitTransfers /\ [][NextTransfers]_vars

----------------------------------------------------------------------------
(* the simple categories *)

SimpleCategories ==
    {"logging", "auth-backends", "secrets-backends", "connection-types", "extra-links"}

\* the raw resource list a provider declares for a category
ResourceList(category) == <<<<category, "resource">>>>

\* a provider declares one category, with an empty or a one-element list, or two
\* categories with a one-element list each
SimpleBodies ==
    {Empty}
        \cup UNION {{c :> <<>>, c :> ResourceList(c)} : c \in SimpleCategories}
        \cup {(c :> ResourceList(c)) @@ (d :> ResourceList(d)) :
                  c \in SimpleCategories, d \in SimpleCategories}

InitSimple ==
    /\ package_data \in Loads(SimpleBodies)
    /\ call = <<>>
    /\ result = Pending

PrepareLoggingData ==
    /\ call' = <<"_prepare_logging_data">>
    /\ result' = Return(prepare_logging_data(package_data))
    /\ UNCHANGED package_data

PrepareAuthBackendData ==
    /\ call' = <<"_prepare_auth_backend_data">>
    /\ result' = Return(prepare_auth_backend_data(package_data))
    /\ UNCHANGED package_data

PrepareSecretsBackendData ==
    /\ call' = <<"_prepare_secrets_backend_data">>
    /\ result' = Return(prepare_secrets_backend_data(package_data))
    /\ UNCHANGED package_data

PrepareConnectionsData ==
    /\ call' = <<"_prepare_connections_data">>
    /\ result' = Return(prepare_connections_data(package_data))
    /\ UNCHANGED package_data

PrepareExtraLinksData ==
    /\ call' = <<"_prepare_extra_links_data">>
    /\ result' = Return(prepare_extra_links_data(package_data))
    /\ UNCHANGED package_data

NextSimple ==
    \/ PrepareLoggingData
    \/ PrepareAuthBackendData
    \/ PrepareSecretsBackendData
    \/ PrepareConnectionsData
    \/ PrepareExtraLinksData

SpecSimple == InitSimple /\ [][NextSimple]_vars

----------------------------------------------------------------------------
(* what the loaded records declare, read off package_data directly *)

\* the places <<p, i>> of the records of a resource category, in load order
Places(resource_type) ==
    UNION {{<<p, i>> : i \in 1..Len(Get(package_data[p], resource_type, <<>>))} :
              p \in 1..Len(package_data)}

RecordAt(resource_type, x) == package_data[x[1]][resource_type][x[2]]

Before(x, y) == x[1] < y[1] \/ (x[1] = y[1] /\ x[2] <= y[2])

DeclaredNames(resource_type) ==
    {RecordAt(resource_type, x)["integration-name"] : x \in Places(resource_type)}

\* the last place in load order that declares name
LastPlace(resource_type, name) ==
    CHOOSE x \in Places(resource_type) :
        /\ RecordAt(resource_type, x)["integration-name"] = name
        /\ \A y \in Places(resource_type) :
               RecordAt(resource_type, y)["integration-name"] = name => Before(y, x)

\* the record of the last declaration of name, with its provider's package name
LastDeclared(resource_type, name) ==
    LET x == LastPlace(resource_type, name) IN
    ("package-name" :> package_data[x[1]]["package-name"]) @@ RecordAt(resource_type, x)

Called(op) == call # <<>> /\ call[1] = op /\ result # Pending

----------------------------------------------------------------------------
(* claims about the index and the operators and hooks view, under Spec *)

\* C1: the index of a resource category has exactly one entry per declared
\* integration name, each holding the record of the last provider/resource in
\* load order that declares the name, with that provider's package name; the
\* call raises nothing, name collisions included.
C1_LastWriteWins ==
    Called("_prepare_resource_index") =>
        LET index == result.value
            resource_type == call[2]
        IN /\ ~result.raised
           /\ {index[i].key : i \in 1..Len(index)} = DeclaredNames(resource_type)
           /\ Len(index) = Cardinality(DeclaredNames(resource_type))
           /\ \A i \in 1..Len(index) :
                  index[i].value = LastDeclared(resource_type, index[i].key)

\* two providers declare the same integration name with different records, and
\* the index holds the second one
C1_Witness ==
    /\ Called("_prepare_resource_index") /\ call[2] = "integrations"
    /\ Len(package_data) = 2
    /\ Places("integrations") = {<<1, 1>>, <<2, 1>>}
    /\ RecordAt("integrations", <<1, 1>>)["integration-name"]
         = RecordAt("integrations", <<2, 1>>)["integration-name"]
    /\ RecordAt("integrations", <<1, 1>>) # RecordAt("integrations", <<2, 1>>)
    /\ Len(result.value) = 1
    /\ result.value[1].value["package-name"] = PackageName(2)
    /\ result.value[1].value["tags"] = RecordAt("integrations", <<2, 1>>)["tags"]

\* the integrations the operators and hooks view must show under filter T
Shown(T) ==
    {name \in DeclaredNames("integrations") :
        /\ T \cap LastDeclared("integrations", name)["tags"] # {}
        /\ name \in DeclaredNames("operators") \cup DeclaredNames("hooks")}

ItemNames(items) == {items[i]["integration"]["integration-name"] : i \in 1..Len(items)}

\* C2: under a supplied tag filter T, a returned operators and hooks view holds
\* exactly one item for each indexed integration whose tags meet T and that has
\* an operator record or a hook record under its name, and no other item.
C2_ExactlyFilteredWithResources ==
    (Called("_prepare_operators_data") /\ call[2] # <<>> /\ ~result.raised) =>
        /\ ItemNames(result.value) = Shown(call[2][1])
        /\ Len(result.value) = Cardinality(Shown(call[2][1]))

\* under filter {aws}: one integration is shown, another meets the filter and
\* is left out for having no operator and no hook
C2_Witness ==
    /\ Called("_prepare_operators_data") /\ call[2] = <<{AWS}>> /\ ~result.raised
    /\ Len(result.value) = 1
    /\ \E name \in DeclaredNames("integrations") \ ItemNames(result.value) :
           /\ {AWS} \cap LastDeclared("integrations", name)["tags"] # {}
           /\ name \notin DeclaredNames("operators") \cup DeclaredNames("hooks")

\* C7: a returned operators and hooks view is sorted ascending by the
\* lower-cased integration name, whatever the load order and the tag filter.
C7_SortedCaseInsensitive ==
    (Called("_prepare_operators_data") /\ ~result.raised) =>
        \A i \in 1..Len(result.value) - 1 :
            ~str_lt(lower(result.value[i + 1]["integration"]["integration-name"]),
                    lower(result.value[i]["integration"]["integration-name"]))

\* 'B' is loaded before 'a' and both pass the filter {aws}: the view lists 'a' first
C7_Witness ==
    /\ Called("_prepare_operators_data") /\ call[2] = <<{AWS}>> /\ ~result.raised
    /\ Len(package_data) = 2
    /\ "integrations" \in DOMAIN package_data[1]
    /\ package_data[1]["integrations"][1]["integration-name"] = NAME_B
    /\ Len(result.value) = 2
    /\ result.value[1]["integration"]["integration-name"] = NAME_a
    /\ result.value[2]["integration"]["integration-name"] = NAME_B

\* C8: in every item of a returned view the key 'operators' ('hooks') is present
\* exactly when a record of that category is declared under the integration's
\* name, and then holds that record: never None, never empty.
C8_NoEmptyCategories ==
    (Called("_prepare_operators_data") /\ ~result.raised) =>
        \A i \in 1..Len(result.value) :
            LET item == result.value[i]
                name == item["integration"]["integration-name"]
            IN /\ DOMAIN item \subseteq {"integration", "operators", "hooks"}
               /\ \A category \in {"operators", "hooks"} :
                      /\ category \in DOMAIN item <=> name \in DeclaredNames(category)
                      /\ category \in DOMAIN item =>
                             item[category] = LastDeclared(category, name)

\* an item with operators and no hooks key, next to an item with both
C8_Witness ==
    /\ Called("_prepare_operators_data") /\ ~result.raised
    /\ Len(result.value) = 2
    /\ result.value[1]["integration"]["integration-name"] = NAME_a
    /\ DOMAIN result.value[1] = {"integration", "operators"}
    /\ DOMAIN result.value[2] = {"integration", "operators", "hooks"}

\* the indexed integration name is let through by the optional filter tags
PassesFilter(tags, name) ==
    tags = <<>> \/ tags[1] \cap LastDeclared("integrations", name)["tags"] # {}

\* the indexed integration name has a how-to-guide path that _docs_path rejects
MalformedGuide(name) ==
    LET integration == LastDeclared("integrations", name) IN
    /\ "how-to-guide" \in DOMAIN integration
    /\ \E i \in 1..Len(integration["how-to-guide"]) :
           docs_path(integration["how-to-guide"][i]).raised

\* C11: _prepare_operators_data filters by tag, then normalizes how-to-guide
\* paths, then checks for operators and hooks: the call fails exactly when some
\* indexed integration that passes the tag filter has a malformed how-to-guide
\* path, whether or not it has operators or hooks; a malformed path on an
\* integration the filter excludes causes no failure.
C11_FilterThenGuideThenCheck ==
    Called("_prepare_operators_data") =>
        (result.raised <=>
            \E name \in DeclaredNames("integrations") :
                PassesFilter(call[2], name) /\ MalformedGuide(name))

\* under filter {gcp} the call fails on 'B', tagged gcp with a malformed
\* how-to-guide path and with no operators and no hooks
C11_Witness ==
    /\ Called("_prepare_operators_data") /\ call[2] = <<{GCP}>>
    /\ result.raised /\ result.type = "Exception"
    /\ NAME_B \in DeclaredNames("integrations")
    /\ PassesFilter(call[2], NAME_B) /\ MalformedGuide(NAME_B)
    /\ NAME_B \notin DeclaredNames("operators") \cup DeclaredNames("hooks")

----------------------------------------------------------------------------
(* claims about the transfers view, under SpecTransfers *)

Placeholders == {SQL, Local}

\* a transfer record one of whose endpoints no provider declares and that is
\* not a placeholder
Unresolved(x) ==
    \E key \in {"source-integration-name", "target-integration-name"} :
        RecordAt("transfers", x)[key] \notin DeclaredNames("integrations") \cup Placeholders

\* C4: when some transfer record names an endpoint that is neither declared
\* nor a placeholder, _prepare_transfer_data raises KeyError for that name and
\* returns nothing, whatever the tag filter.
C4_UnresolvedEndpointFails ==
    (Called("_prepare_transfer_data") /\ \E x \in Places("transfers") : Unresolved(x)) =>
        /\ result.raised
        /\ result.type = "KeyError"
        /\ result.value \notin DeclaredNames("integrations") \cup Placeholders

\* the transfer 'a' -> 'B' with 'B' undeclared fails under the filter {gcp},
\* which the declared source ('a', tagged aws) does not meet
C4_Witness ==
    /\ Called("_prepare_transfer_data") /\ call[2] = <<{GCP}>>
    /\ result = Raise("KeyError", NAME_B)
    /\ NAME_a \in DeclaredNames("integrations")
    /\ LastDeclared("integrations", NAME_a)["tags"] = {AWS}
    /\ \E x \in Places("transfers") :
           /\ RecordAt("transfers", x)["source-integration-name"] = NAME_a
           /\ RecordAt("transfers", x)["target-integration-name"] = NAME_B

\* the places of a set, in load order
RECURSIVE InLoadOrder(_)
InLoadOrder(places) ==
    IF places = {} THEN <<>>
    ELSE LET first == CHOOSE x \in places : \A y \in places : Before(x, y)
         IN <<first>> \o InLoadOrder(places \ {first})

\* the tags of the integration a transfer endpoint resolves to: a placeholder
\* has none
EndpointTags(name) ==
    IF name \in Placeholders THEN {} ELSE LastDeclared("integrations", name)["tags"]

\* the transfers to show under the optional filter tags, in load order
Kept(tags) ==
    SelectSeq(InLoadOrder(Places("transfers")),
              LAMBDA x :
                  \/ tags = <<>>
                  \/ tags[1] \cap EndpointTags(RecordAt("transfers", x)["source-integration-name"]) # {}
                  \/ tags[1] \cap EndpointTags(RecordAt("transfers", x)["target-integration-name"]) # {})

\* C5: a returned transfers view holds one record per kept transfer, in load
\* order: every transfer when no filter is given, else the transfers whose
\* source tags or target tags meet the filter.
C5_SourceOrTarget ==
    (Called("_prepare_transfer_data") /\ ~result.raised) =>
        LET kept == Kept(call[2]) IN
        /\ Len(result.value) = Len(kept)
        /\ \A k \in 1..Len(kept) :
               LET transfer == RecordAt("transfers", kept[k]) IN
               /\ result.value[k]["package-name"] = package_data[kept[k][1]]["package-name"]
               /\ \A key \in {"source-integration-name", "target-integration-name"} :
                      result.value[k][key] = transfer[key]

\* source tagged aws, target tagged gcp, filter {gcp}: the transfer is shown
C5_Witness ==
    /\ Called("_prepare_transfer_data") /\ call[2] = <<{GCP}>> /\ ~result.raised
    /\ Len(result.value) = 1
    /\ Get(result.value[1]["source-integration"], "tags", {}) = {AWS}
    /\ Get(result.value[1]["target-integration"], "tags", {}) = {GCP}

\* C12: in a returned transfers view every endpoint named 'SQL' or 'Local'
\* resolves to the placeholder record, which holds the integration name and
\* nothing else (no tags, no package name), a provider declaring that name or
\* not; and under a tag filter every transfer shown has an endpoint that is not
\* a placeholder and whose declared tags meet the filter.
C12_PlaceholdersReplaceDeclared ==
    (Called("_prepare_transfer_data") /\ ~result.raised) =>
        \A k \in 1..Len(result.value) :
            LET transfer == result.value[k] IN
            /\ \A side \in {"source", "target"} :
                   LET name == transfer[side \o "-integration-name"] IN
                   name \in Placeholders =>
                       transfer[side \o "-integration"] = ("integration-name" :> name)
            /\ call[2] # <<>> =>
                   \E side \in {"source", "target"} :
                       LET name == transfer[side \o "-integration-name"] IN
                       /\ name \notin Placeholders
                       /\ call[2][1] \cap LastDeclared("integrations", name)["tags"] # {}

\* a provider declares 'SQL' with the tag aws; under filter {gcp} the transfer
\* 'SQL' -> 'a' is shown for its target, its source being the bare placeholder
C12_Witness ==
    /\ Called("_prepare_transfer_data") /\ call[2] = <<{GCP}>> /\ ~result.raised
    /\ SQL \in DeclaredNames("integrations")
    /\ LastDeclared("integrations", SQL)["tags"] = {AWS}
    /\ Len(result.value) = 1
    /\ result.value[1]["source-integration-name"] = SQL
    /\ result.value[1]["source-integration"] = ("integration-name" :> SQL)
    /\ result.value[1]["target-integration"]["tags"] = {GCP}

\* C10: no call changes the loaded provider records, and a call repeated with
\* the same arguments returns what it returned before.
C10_LoadedRecordsUnchanged ==
    [][/\ package_data' = package_data
       /\ call' = call => result' = result]_vars

\* a transfers view was returned with a normalized how-to-guide while the
\* loaded transfer record still holds the raw path
C10_Witness ==
    /\ Called("_prepare_transfer_data") /\ ~result.raised
    /\ \E k \in 1..Len(result.value) :
           /\ "how-to-guide" \in DOMAIN result.value[k]
           /\ docs_path(LAMBDA_RST) = Return(result.value[k]["how-to-guide"])
    /\ \E x \in Places("transfers") :
           /\ "how-to-guide" \in DOMAIN RecordAt("transfers", x)
           /\ RecordAt("transfers", x)["how-to-guide"] = LAMBDA_RST

----------------------------------------------------------------------------
(* claims about the simple categories, under SpecSimple *)

\* the category each function reads and the key its entries hold the list under
SimpleFunctions ==
    ("_prepare_logging_data" :> <<"logging", "handlers">>)
        @@ ("_prepare_auth_backend_data" :> <<"auth-backends", "auth_backends">>)
        @@ ("_prepare_secrets_backend_data" :> <<"secrets-backends", "secrets_backends">>)
        @@ ("_prepare_connections_data" :> <<"connection-types", "connection_types">>)
        @@ ("_prepare_extra_links_data" :> <<"extra-links", "extra_links">>)

\* C9: the mapping a simple category aggregator returns has a key for a
\* provider's package name exactly when the provider declares a non-empty list
\* for the category, and the value holds the provider's display name and that
\* list unchanged.
C9_SimpleCategories ==
    (call # <<>> /\ result # Pending) =>
        LET category == SimpleFunctions[call[1]][1]
            field == SimpleFunctions[call[1]][2]
            all == result.value
        IN /\ ~result.raised
           /\ \A i, j \in 1..Len(all) : all[i].key = all[j].key => i = j
           /\ \A p \in 1..Len(package_data) :
                  LET provider == package_data[p]
                      declared == category \in DOMAIN provider /\ provider[category] # <<>>
                  IN /\ HasKey(all, provider["package-name"]) <=> declared
                     /\ declared =>
                            /\ DOMAIN DictGet(all, provider["package-name"]) = {"name", field}
                            /\ DictGet(all, provider["package-name"])["name"] = provider["name"]
                            /\ DictGet(all, provider["package-name"])[field] = provider[category]

\* one provider declares an empty logging list, the other a handler: the
\* mapping holds the second provider only
C9_Witness ==
    /\ call = <<"_prepare_logging_data">> /\ result # Pending
    /\ Len(package_data) = 2
    /\ "logging" \in DOMAIN package_data[1] /\ package_data[1]["logging"] = <<>>
    /\ "logging" \in DOMAIN package_data[2] /\ package_data[2]["logging"] # <<>>
    /\ Len(result.value) = 1
    /\ result.value[1].key = PackageName(2)

----------------------------------------------------------------------------
(* claims about _docs_path, under SpecDocsPath *)

DocsPathReturned == call # <<>> /\ call[1] = "_docs_path" /\ result # Pending

\* '/docs/apache-airflow-providers-<id>/<rest>.rst', <id> holding no '/'
IsProviderDocPath(p) ==
    /\ startswith(p, PROVIDER_DOCS_PREFIX)
    /\ find(p, "/", Len(PROVIDER_DOCS_PREFIX) + 1) # 0
    /\ endswith(p, RST)

ProviderIdOf(p) ==
    SubSeq(p, Len(PROVIDER_DOCS_PREFIX) + 1, find(p, "/", Len(PROVIDER_DOCS_PREFIX) + 1) - 1)

RelativeNoExtOf(p) ==
    SubSeq(p, find(p, "/", Len(PROVIDER_DOCS_PREFIX) + 1) + 1, Len(p) - Len(RST))

\* C3 as stated: a provider documentation path normalizes to
\* '<id>:<relative path without .rst>', <id> being the bare provider id
\* ('amazon:operators/lambda' for the amazon example).
C3_ShortFormBareId ==
    (DocsPathReturned /\ IsProviderDocPath(call[2])) =>
        result = Return(ProviderIdOf(call[2]) \o <<":">> \o RelativeNoExtOf(call[2]))

\* C3 amended: a provider documentation path normalizes to
\* 'apache-airflow-providers-<id>:<relative path without .rst>': the part before
\* the colon is the whole directory name under /docs/, not the bare id.
C3_ShortFormDirName ==
    (DocsPathReturned /\ IsProviderDocPath(call[2])) =>
        result = Return(PROVIDER_DIR_PREFIX \o ProviderIdOf(call[2]) \o <<":">>
                            \o RelativeNoExtOf(call[2]))

C3_Witness ==
    /\ DocsPathReturned
    /\ call[2] = LAMBDA_RST
    /\ result = Return(PROVIDER_DIR_PREFIX \o AMAZON \o
                        <<":", "o", "p", "e", "r", "a", "t", "o", "r", "s",
                          "/", "l", "a", "m", "b", "d", "a">>)

\* C6: _docs_path raises the wrong-prefix error for every input not starting
\* with '/docs/' (also when the suffix is wrong too), the wrong-suffix error for
\* every other input not ending with '.rst', and returns a value without error
\* for every input that passes both checks.
C6_TwoValidationFailures ==
    DocsPathReturned =>
        LET filepath == call[2] IN
        IF ~startswith(filepath, DOCS_PREFIX)
        THEN result = Raise("Exception", <<MSG_PREFIX, filepath>>)
        ELSE IF ~endswith(filepath, RST)
        THEN result = Raise("Exception", <<MSG_SUFFIX, filepath>>)
        ELSE ~result.raised

====
